---- MODULE Spec2Model ----
(***************************************************************************)
(* Model of the Liquid pattern engine for patternlab-node                  *)
(* (engine-liquid-shopify).  Two variants of the engine exist: the full    *)
(* one (six tags, four filters; src/unnamed/part_000) and the reduced one  *)
(* (two tags, one filter; src/lib/engine_liquid.js).                       *)
(*                                                                         *)
(* Text is modelled by TLA+ strings (Len, SubSeq and \o act on them as on  *)
(* sequences of characters).                                               *)
(***************************************************************************)
EXTENDS Integers, Sequences, FiniteSets, TLC

VARIABLES
  \* ---- one occurrence of a block tag: parse, then render ----
  tagToken,       \* the opening tag token {name, args, text}
  source,         \* the tokens that follow the opening tag, as tokenized
  remainTokens,   \* the stream: tokens not yet consumed (shift() is destructive)
  tokens,         \* this.tokens, the buffered child tokens
  stopRequested,  \* the stream's stop flag, set by stream.stop()
  tagPc,          \* "ready" | "scanning" | "parsed" | "failed" | "rendered" | "renderFailed"
  tagError,       \* message of the Error thrown by parse or render, "" if none
  processor,      \* this.processor of the stylesheet tag
  tagHtml,        \* text returned by the tag's render, NoResult before
  formClass,      \* this.formClass of the form tag
  dataAttributes, \* this.dataAttributes of the form tag
  \* ---- one occurrence of the section tag ----
  variant,        \* "full" (src/unnamed/part_000) or "reduced" (src/lib/engine_liquid.js)
  allPaths,       \* the directories searched for a sidecar file, in order
  fsSidecar,      \* per directory: what hero.json holds there (or Missing, Corrupt)
  variantFile,    \* what rendering the variant file hero.<ext> yields (or Missing)
  sectionToken,   \* the section tag token
  template,       \* this.template
  sectionData,    \* this.sectionData
  secPc,          \* "ready" | "parsed" | "parseFailed"
  secError,       \* message of the last Error thrown by section parse or render
  renders,        \* per render so far: the data it exposed and what it returned
  \* ---- the module: its variables, the files it reads, the calls made ----
  patternLabConfig,    \* let patternLabConfig = {}
  globalDataFilePath,  \* let globalDataFilePath (full variant)
  globalData,          \* let globalData (full variant)
  engine,              \* let engine: 0 is the engine made at load, n the one made by setup n
  exportsEngine,       \* module.exports.engine
  fsData,              \* per data directory: what data.json holds there
  setups,              \* number of usePatternLabConfig calls made
  calls,               \* the renderPattern calls made, each with its outcome
  logged,              \* number of console.log(40, ex) lines written
  \* ---- calls of the pure functions ----
  partialParts,        \* the parts the partial reference was written from
  partialString,       \* findPartial's argument
  foundPatternPartial, \* findPartial's return value, NoResult before the call
  moneyValue,          \* the money filter's argument
  moneyResult          \* the money filter's return value, NoResult before the call

formVars == <<formClass, dataAttributes>>

tagVars == <<tagToken, source, remainTokens, tokens, stopRequested, tagPc,
             tagError, processor, tagHtml, formVars>>

secVars == <<variant, allPaths, fsSidecar, variantFile, sectionToken, template,
             sectionData, secPc, secError, renders>>

secRest == <<fsSidecar, variantFile, sectionToken, template, sectionData, secPc,
             secError, renders>>

modVars == <<patternLabConfig, globalDataFilePath, globalData, engine, exportsEngine,
             fsData, setups, calls, logged>>

pureVars == <<partialParts, partialString, foundPatternPartial, moneyValue, moneyResult>>

vars == <<tagVars, secVars, modVars, pureVars>>

\* A JavaScript undefined (a token that is no tag has no name property).
Undefined == "undefined"
NoResult == [none |-> TRUE]

(***************************************************************************)
(* Bounds                                                                  *)
(***************************************************************************)
MaxTokens == 3
MaxBlocks == 2
MaxRenders == 2
MaxPieces == 2
MaxSetups == 2
MaxCalls == 2
MaxCents == 120

(***************************************************************************)
(* Block tags and their tokens                                             *)
(***************************************************************************)
BlockTags == {"form", "paginate", "schema", "stylesheet", "javascript"}

\* the name compared in each parse routine's 'token' handler
EndName(tag) == "end" \o tag

TagText(name, args) ==
  IF args = "" THEN "{% " \o name \o " %}" ELSE "{% " \o name \o " " \o args \o " %}"

TagTok(name, args) == [name |-> name, args |-> args, text |-> TagText(name, args)]
HtmlTok(text) == [name |-> Undefined, args |-> "", text |-> text]

\* token.getText()
GetText(token) == token.text

\* this.tokens.map(token => token.getText()).join('')
RECURSIVE JoinText(_)
JoinText(toks) ==
  IF toks = <<>> THEN "" ELSE GetText(Head(toks)) \o JoinText(Tail(toks))

\* Processor selectors written after {% stylesheet
StylesheetArgs ==
  {"", "''", "'sass'", "'scss'", "\"scss\"", "sass", "'less'",
   "'toString'", "'constructor'", "'__proto__'", "'valueOf'", "'isPrototypeOf'"}

\* Argument strings written after {% form
FormArgs ==
  {"", "class: 'btn'", "class:\"a b\"", "data-id: 'x'",
   "class: 'btn', data-id: product.id", "data-open: '"}

OpeningTokens ==
  {TagTok(t, "") : t \in BlockTags \ {"stylesheet"}}
    \cup {TagTok("stylesheet", a) : a \in StylesheetArgs}
    \cup {TagTok("form", a) : a \in FormArgs}

\* What may follow the opening tag of kind tag: its end tag, the end tag of
\* another block tag, another opening tag of the same kind, another tag, text.
OtherBlock(tag) == IF tag = "form" THEN "schema" ELSE "form"
Alphabet(tag) ==
  {TagTok(EndName(tag), ""), TagTok(EndName(OtherBlock(tag)), ""),
   TagTok(tag, ""), TagTok("if", "x"), HtmlTok("a{b:c}")}

SeqsUpTo(S, n) == UNION {[1..k -> S] : k \in 0..n}

(***************************************************************************)
(* Block scanning: the parse routine of form, paginate, schema,            *)
(* stylesheet, javascript.  parseStream(remainTokens).on('token', ...)     *)
(* .on('end', ...).start() shifts tokens off remainTokens one by one,      *)
(* hands each to the 'token' handler until stop() was called, and fires    *)
(* 'end' when the tokens ran out without stop().                           *)
(***************************************************************************)

\* the 'token' handler: stop on the end tag, else buffer the token
OnTokenBuffersEnd(tag, token, buf) ==
  [tokens |-> Append(buf, token), stop |-> token.name = EndName(tag)]
OnToken(tag, token, buf) ==
  IF token.name = EndName(tag)
    THEN [tokens |-> buf, stop |-> TRUE]
    ELSE [tokens |-> Append(buf, token), stop |-> FALSE]

\* the 'end' handler: new Error(`tag ${tagToken.getText()} not closed`)
NotClosedNamesTag(tok) == "tag " \o tok.name \o " not closed"
NotClosedError(tok) == "tag " \o GetText(tok) \o " not closed"

\* values of the tag's properties: null, undefined, a string, an array
JNull == [t |-> "null"]
JStr(str) == [t |-> "str", s |-> str]
JArr(items) == [t |-> "arr", items |-> items]
JUndefined == [t |-> "undefined"]

\* positions at which pat occurs in str
Occurrences(str, pat) ==
  {i \in 1..(Len(str) - Len(pat) + 1) : SubSeq(str, i, i + Len(pat) - 1) = pat}

SafeChar(str, i) == IF i \in 1..Len(str) THEN SubSeq(str, i, i) ELSE ""
IsQuote(c) == c \in {"'", "\""}

\* where the quote of /(class: ?('|"))/ stands when "class:" starts at i, else 0
QuotePos(args, i) ==
  LET after == i + Len("class:")
  IN IF IsQuote(SafeChar(args, after)) THEN after
     ELSE IF SafeChar(args, after) = " " /\ IsQuote(SafeChar(args, after + 1)) THEN after + 1
     ELSE 0

\* const formClassRegex = args.match(/(class: ?('|"))(.+)(('|"))/);
\* this.formClass = formClassRegex && formClassRegex[3]: the greedy (.+) runs
\* to the last quote of args
FormClassOf(args) ==
  LET starts == {i \in Occurrences(args, "class:") :
                   /\ QuotePos(args, i) # 0
                   /\ \E j \in (QuotePos(args, i) + 2)..Len(args) : IsQuote(SafeChar(args, j))}
  IN IF starts = {} THEN JNull
     ELSE LET i == CHOOSE x \in starts : \A y \in starts : x <= y
              q == QuotePos(args, i)
              ends == {j \in (q + 2)..Len(args) : IsQuote(SafeChar(args, j))}
              j == CHOOSE x \in ends : \A y \in ends : y <= x
          IN JStr(SubSeq(args, q + 1, j - 1))

\* item[5].replace(/'?,$/, '')
StripTrailingComma(str) ==
  IF Len(str) >= 2 /\ SubSeq(str, Len(str) - 1, Len(str)) = "'," THEN SubSeq(str, 1, Len(str) - 2)
  ELSE IF Len(str) >= 1 /\ SafeChar(str, Len(str)) = "," THEN SubSeq(str, 1, Len(str) - 1)
  ELSE str

\* [...args.matchAll(/(data-(.+)): (('|")?(.+)?('|")?)/g)].map(...): the first
\* greedy (.+) runs to the last ": " of args, the second to the end of args, so
\* args yields at most one item; item[5] is undefined when nothing follows the
\* optional quote, and item[5].replace then throws
DataAttributesOf(args) ==
  LET starts == {i \in Occurrences(args, "data-") :
                   \E k \in Occurrences(args, ": ") : k >= i + Len("data-") + 1}
  IN IF starts = {} THEN [ok |-> TRUE, v |-> JArr(<<>>)]
     ELSE LET i == CHOOSE x \in starts : \A y \in starts : x <= y
              seps == {k \in Occurrences(args, ": ") : k >= i + Len("data-") + 1}
              k == CHOOSE x \in seps : \A y \in seps : y <= x
              value == k + Len(": ")
              quoted == IsQuote(SafeChar(args, value))
              from == IF quoted THEN value + 1 ELSE value
          IN IF from > Len(args)
               THEN [ok |-> FALSE, v |-> JArr(<<>>)]
               ELSE [ok |-> TRUE,
                     v |-> JArr(<<[attribute |-> SubSeq(args, i, k - 1),
                                   value |-> StripTrailingComma(SubSeq(args, from, Len(args))),
                                   variable |-> ~quoted]>>)]

\* parse: function (tagToken, remainTokens), up to stream.start(); the form
\* tag reads its class and data attributes first, and only if (args)
ParseBegin ==
  /\ tagPc = "ready"
  /\ tokens' = <<>>
  /\ stopRequested' = FALSE
  /\ processor' = IF tagToken.name = "stylesheet" THEN tagToken.args ELSE processor
  /\ IF tagToken.name = "form"
       THEN IF tagToken.args = ""
              THEN /\ formClass' = JNull
                   /\ UNCHANGED dataAttributes
                   /\ tagPc' = "scanning"
                   /\ UNCHANGED tagError
              ELSE /\ formClass' = FormClassOf(tagToken.args)
                   /\ IF DataAttributesOf(tagToken.args).ok
                        THEN /\ dataAttributes' = DataAttributesOf(tagToken.args).v
                             /\ tagPc' = "scanning"
                             /\ UNCHANGED tagError
                        ELSE /\ tagPc' = "argsFailed"
                             /\ tagError' = "TypeError: Cannot read property 'replace' of undefined"
                             /\ UNCHANGED dataAttributes
       ELSE /\ tagPc' = "scanning"
            /\ UNCHANGED <<formVars, tagError>>
  /\ UNCHANGED <<tagToken, source, remainTokens, tagHtml>>
  /\ UNCHANGED <<secVars, modVars, pureVars>>

\* one turn of the stream's loop: token = tokens.shift(); trigger('token', token)
StreamToken ==
  /\ tagPc = "scanning"
  /\ ~stopRequested
  /\ remainTokens # <<>>
  /\ LET r == OnToken(tagToken.name, Head(remainTokens), tokens) IN
       /\ tokens' = r.tokens
       /\ stopRequested' = r.stop
  /\ remainTokens' = Tail(remainTokens)
  /\ UNCHANGED <<tagToken, source, tagPc, tagError, processor, tagHtml>>
  /\ UNCHANGED <<secVars, modVars, pureVars, formVars>>

\* the loop ended on stop(): start() returns and so does parse
StreamStopped ==
  /\ tagPc = "scanning"
  /\ stopRequested
  /\ tagPc' = "parsed"
  /\ UNCHANGED <<tagToken, source, remainTokens, tokens, stopRequested,
                 tagError, processor, tagHtml>>
  /\ UNCHANGED <<secVars, modVars, pureVars, formVars>>

\* the tokens ran out: trigger('end') throws out of parse
StreamEnd ==
  /\ tagPc = "scanning"
  /\ ~stopRequested
  /\ remainTokens = <<>>
  /\ tagPc' = "failed"
  /\ tagError' = NotClosedError(tagToken)
  /\ UNCHANGED <<tagToken, source, remainTokens, tokens, stopRequested,
                 processor, tagHtml>>
  /\ UNCHANGED <<secVars, modVars, pureVars, formVars>>

(***************************************************************************)
(* Render routines of the block tags                                       *)
(***************************************************************************)

\* javascript.render
RenderJavascript ==
  /\ tagPc = "parsed"
  /\ tagToken.name = "javascript"
  /\ tagHtml' = "<script>" \o JoinText(tokens) \o "</script>"
  /\ tagPc' = "rendered"
  /\ UNCHANGED <<tagToken, source, remainTokens, tokens, stopRequested,
                 tagError, processor>>
  /\ UNCHANGED <<secVars, modVars, pureVars, formVars>>

SchemaOpen == "<script id=\"schema\" type=\"application/json\">"
SchemaClose == "</script>"

\* schema.render (full variant; the reduced variant returns null)
RenderSchema ==
  /\ tagPc = "parsed"
  /\ tagToken.name = "schema"
  /\ tagHtml' = SchemaOpen \o JoinText(tokens) \o SchemaClose
  /\ tagPc' = "rendered"
  /\ UNCHANGED <<tagToken, source, remainTokens, tokens, stopRequested,
                 tagError, processor>>
  /\ UNCHANGED <<secVars, modVars, pureVars, formVars>>

\* The underlying engine's parseAndRender of a child text: it is not part of
\* this repository; it yields some text for the template or rejects.
EngineRendered(text) == "[" \o text \o "]"

\* paginate.render
RenderPaginate ==
  /\ tagPc = "parsed"
  /\ tagToken.name = "paginate"
  /\ \E ok \in BOOLEAN :
       IF ok
         THEN /\ tagHtml' = EngineRendered(JoinText(tokens))
              /\ tagPc' = "rendered"
              /\ UNCHANGED tagError
         ELSE /\ tagPc' = "renderFailed"
              /\ tagError' = "engine: render failed"
              /\ UNCHANGED tagHtml
  /\ UNCHANGED <<tagToken, source, remainTokens, tokens, stopRequested, processor>>
  /\ UNCHANGED <<secVars, modVars, pureVars, formVars>>

CharAt(s, i) == SubSeq(s, i, i)

\* const quoted = /^'[^']*'|"[^"]*"$/;  quoted.exec(s) finds a match when s
\* starts with a single-quoted run or ends with a double-quoted run
Quoted(s) ==
  \/ /\ Len(s) >= 2
     /\ CharAt(s, 1) = "'"
     /\ \E j \in 2..Len(s) : CharAt(s, j) = "'"
  \/ /\ Len(s) >= 2
     /\ CharAt(s, Len(s)) = "\""
     /\ \E i \in 1..(Len(s) - 1) : CharAt(s, i) = "\""

\* s.slice(1, -1)
Slice1(s) == IF Len(s) < 2 THEN "" ELSE SubSeq(s, 2, Len(s) - 1)

\* let processor = ''; if (quoted.exec(this.processor)) processor = await
\* parseAndRender(this.processor.slice(1, -1), ...).  The selectors of the
\* model hold no Liquid markup, so the engine renders them to their own text.
ResolvedKey(sel) == IF Quoted(sel) THEN Slice1(sel) ELSE ""

\* const processors = {'': x => x, 'sass': sassProcessor, 'scss': sassProcessor}
OwnKeys == {"", "sass", "scss"}
\* processors is an object literal: processors[key] also finds what it
\* inherits from Object.prototype
InheritedKeys ==
  {"constructor", "toString", "valueOf", "isPrototypeOf", "__proto__",
   "hasOwnProperty", "toLocaleString", "propertyIsEnumerable"}

\* const p = processors[processor]; Undefined when there is no such property
ProcessorFor(key) ==
  IF key \in OwnKeys \cup InheritedKeys THEN key ELSE Undefined

\* await p(text): the outcomes of calling what the lookup found.  sass may
\* reject (ok = FALSE); the inherited members are called with this undefined.
CallProcessor(p, text, ok) ==
  CASE p = "" -> [ok |-> TRUE, css |-> text, err |-> ""]
    [] p \in {"sass", "scss"} ->
         IF ok THEN [ok |-> TRUE, css |-> "/*sass*/" \o text, err |-> ""]
               ELSE [ok |-> FALSE, css |-> "", err |-> "sass: compile error"]
    [] p = "constructor" -> [ok |-> TRUE, css |-> text, err |-> ""]
    [] p = "toString" -> [ok |-> TRUE, css |-> "[object Undefined]", err |-> ""]
    [] p = "isPrototypeOf" -> [ok |-> TRUE, css |-> "false", err |-> ""]
    [] p = "__proto__" -> [ok |-> FALSE, css |-> "", err |-> "TypeError: p is not a function"]
    [] OTHER -> [ok |-> FALSE, css |-> "",
                 err |-> "TypeError: Cannot convert undefined or null to object"]

ProcessorNotFound(key) == "processor for " \o key \o " not found"

\* stylesheet.render
RenderStylesheet ==
  /\ tagPc = "parsed"
  /\ tagToken.name = "stylesheet"
  /\ LET key == ResolvedKey(processor)
         text == JoinText(tokens)
         p == ProcessorFor(key)
     IN IF p = Undefined
          THEN /\ tagPc' = "renderFailed"
               /\ tagError' = ProcessorNotFound(key)
               /\ UNCHANGED tagHtml
          ELSE \E ok \in BOOLEAN :
                 LET r == CallProcessor(p, text, ok) IN
                   IF r.ok
                     THEN /\ tagHtml' = "<style>" \o r.css \o "</style>"
                          /\ tagPc' = "rendered"
                          /\ UNCHANGED tagError
                     ELSE /\ tagPc' = "renderFailed"
                          /\ tagError' = r.err
                          /\ UNCHANGED tagHtml
  /\ UNCHANGED <<tagToken, source, remainTokens, tokens, stopRequested, processor>>
  /\ UNCHANGED <<secVars, modVars, pureVars, formVars>>

\* `${this.formClass || ''}`
ClassText(class) == IF class.t = "str" THEN class.s ELSE ""

\* one step of the reduce in form.render, as the second parseAndRender leaves
\* it: the literal part unchanged, the `{{ value }}` of a variable attribute
\* rendered by the engine
AttributeText(item) ==
  " " \o item.attribute \o
    (IF item.value # ""
       THEN "=\"" \o (IF item.variable
                        THEN EngineRendered("{{ " \o item.value \o " }}")
                        ELSE item.value) \o "\""
       ELSE "")

\* this.dataAttributes.reduce(..., '')
RECURSIVE FormAttributes(_)
FormAttributes(items) ==
  IF items = <<>> THEN ""
  ELSE FormAttributes(SubSeq(items, 1, Len(items) - 1)) \o AttributeText(items[Len(items)])

\* `<form class="..."${formAttributes ? ` ${formAttributes}` : ''}>...</form>`
FormHtml(class, items, renderedContent) ==
  "<form class=\"" \o ClassText(class) \o "\""
    \o (IF FormAttributes(items) # "" THEN " " \o FormAttributes(items) ELSE "")
    \o ">" \o renderedContent \o "</form>"

\* form.render: the child text is rendered first (the engine may reject it),
\* then this.dataAttributes.length is read, then the form element is rendered;
\* the rendered child text holds no markup, so the second pass keeps it
RenderForm ==
  /\ tagPc = "parsed"
  /\ tagToken.name = "form"
  /\ \E ok \in BOOLEAN :
       IF ~ok
         THEN /\ tagPc' = "renderFailed"
              /\ tagError' = "engine: render failed"
              /\ UNCHANGED tagHtml
         ELSE IF dataAttributes = JUndefined
           THEN /\ tagPc' = "renderFailed"
                /\ tagError' = "TypeError: Cannot read property 'length' of undefined"
                /\ UNCHANGED tagHtml
           ELSE /\ tagHtml' = FormHtml(formClass, dataAttributes.items,
                                       EngineRendered(JoinText(tokens)))
                /\ tagPc' = "rendered"
                /\ UNCHANGED tagError
  /\ UNCHANGED <<tagToken, source, remainTokens, tokens, stopRequested, processor>>
  /\ UNCHANGED <<secVars, modVars, pureVars, formVars>>

(***************************************************************************)
(* JSON values as JSON.parse returns them                                  *)
(***************************************************************************)
JObj(obj) == [t |-> "obj", o |-> obj]
Missing == [t |-> "missing"]   \* no such file
Corrupt == [t |-> "corrupt"]   \* a file that is no JSON text

\* JavaScript truthiness of a JSON value
Truthy(v) == v.t \in {"obj", "arr"} \/ (v.t = "str" /\ v.s # "")

\* obj.key as a truthy value: the property exists and is truthy
HasTruthy(obj, key) == key \in DOMAIN obj /\ Truthy(obj[key])

\* {...obj, k1: v1, ...}: the own properties of obj, then those of over
Spread(obj, over) ==
  [k \in (DOMAIN obj) \cup (DOMAIN over) |->
     IF k \in DOMAIN over THEN over[k] ELSE obj[k]]

(***************************************************************************)
(* Section tag: parse                                                      *)
(***************************************************************************)
RandomIds == {"r1", "r2"}   \* values of Math.random().toString(36).substr(2, 9)

\* the object assigned to this.sectionData.section
StampDropsBlocks(sec, id, blockIds) ==
  Spread(sec, [id |-> JStr(id), blocks |-> JArr(<<>>)])
StampIds(sec, id, blockIds) ==
  Spread(sec,
    [id |-> JStr(id),
     blocks |->
       IF HasTruthy(sec, "blocks")
         THEN JArr([i \in 1..Len(sec.blocks.items) |->
                      Spread(sec.blocks.items[i], [id |-> JStr(blockIds[i])])])
         ELSE JArr(<<>>)])

NumBlocks(data) ==
  IF data.t = "obj" /\ HasTruthy(data.o, "section") /\ HasTruthy(data.o.section.o, "blocks")
    THEN Len(data.o.section.o.blocks.items)
    ELSE 0

\* if (this.sectionData && this.sectionData.section) this.sectionData.section = {...}
Stamped(data, id, blockIds) ==
  IF data.t = "obj" /\ HasTruthy(data.o, "section")
    THEN JObj([data.o EXCEPT !.section = JObj(StampIds(data.o.section.o, id, blockIds))])
    ELSE data

\* if (quoted.exec(this.namestr)) this.template = this.namestr.slice(1, -1)
TemplateOf(namestr) == IF Quoted(namestr) THEN Slice1(namestr) ELSE Undefined

\* fs.existsSync / fs.readFileSync of <directoryPath>/<template>.json; the
\* file system of the model holds sidecar files for the variant "hero" only
SidecarAt(dir, tpl) == IF tpl = "hero" THEN fsSidecar[dir] ELSE Missing

\* for (const directoryPath of allPaths) ... break: the first directory with the file
FoundDirs(tpl) == {i \in 1..Len(allPaths) : SidecarAt(allPaths[i], tpl) # Missing}
FirstFound(tpl) == CHOOSE i \in FoundDirs(tpl) : \A j \in FoundDirs(tpl) : i <= j

\* section.parse
SectionParse ==
  /\ secPc = "ready"
  /\ LET tpl == TemplateOf(sectionToken.args) IN
       /\ template' = tpl
       /\ IF FoundDirs(tpl) = {}
            THEN /\ sectionData' = JObj(<<>>)
                 /\ secPc' = "parsed"
                 /\ UNCHANGED secError
            ELSE LET file == SidecarAt(allPaths[FirstFound(tpl)], tpl) IN
                   IF file = Corrupt
                     THEN /\ secPc' = "parseFailed"
                          /\ secError' = "SyntaxError: JSON.parse"
                          /\ sectionData' = JObj(<<>>)
                     ELSE /\ \E id \in RandomIds :
                               \E blockIds \in [1..NumBlocks(file) -> RandomIds] :
                                 sectionData' = Stamped(file, id, blockIds)
                          /\ secPc' = "parsed"
                          /\ UNCHANGED secError
  /\ UNCHANGED <<variant, allPaths, fsSidecar, variantFile, sectionToken, renders>>
  /\ UNCHANGED <<tagVars, modVars, pureVars>>

(***************************************************************************)
(* Section tag: render                                                     *)
(***************************************************************************)
Text(str) == [t |-> "text", s |-> str]

\* this.liquid.renderFile(`${name}.${patternLabConfig.patternExtension}`, data):
\* the model's file system holds the variant file of "hero" only
RenderFile(name) ==
  IF name = "hero" /\ variantFile # Missing
    THEN [ok |-> TRUE, out |-> variantFile.s, err |-> ""]
    ELSE [ok |-> FALSE, out |-> "", err |-> "ENOENT"]

\* output.match(/<script id="schema" type="application\/json">(.*)<\/script>/s):
\* the leftmost opening that has a closing after it, and (greedy) the last closing
SchemaMatch(output) ==
  LET opens == Occurrences(output, SchemaOpen)
      closes == Occurrences(output, SchemaClose)
      starts == {i \in opens : \E j \in closes : j >= i + Len(SchemaOpen)}
  IN IF starts = {}
       THEN [found |-> FALSE, group |-> ""]
       ELSE LET i == CHOOSE x \in starts : \A y \in starts : x <= y
                j == CHOOSE x \in closes : \A y \in closes : y <= x
            IN [found |-> TRUE, group |-> SubSeq(output, i + Len(SchemaOpen), j - 1)]

\* JSON texts a variant may embed
JsonNamed == "{\"name\":\"Hero Banner!\"}"
JsonNamedClass == "{\"name\":\"Hero_1\",\"class\":\"wide\"}"
JsonNoName == "{\"class\":\"wide\"}"
JsonNull == "null"

\* JSON.parse over the texts of the model: every other text is no JSON
JsonParse(text) ==
  CASE text = JsonNamed -> [ok |-> TRUE, v |-> JObj([name |-> JStr("Hero Banner!")])]
    [] text = JsonNamedClass ->
         [ok |-> TRUE, v |-> JObj([name |-> JStr("Hero_1"), class |-> JStr("wide")])]
    [] text = JsonNoName -> [ok |-> TRUE, v |-> JObj([class |-> JStr("wide")])]
    [] text = JsonNull -> [ok |-> TRUE, v |-> JNull]
    [] OTHER -> [ok |-> FALSE, v |-> JNull]

UpperCase == "ABCDEFGHIJKLMNOPQRSTUVWXYZ"
LowerCase == "abcdefghijklmnopqrstuvwxyz"
Digits == "0123456789"

\* c.toLowerCase() of one character
LowerChar(c) ==
  LET at == Occurrences(UpperCase, c) IN
    IF at = {} THEN c ELSE CharAt(LowerCase, CHOOSE i \in at : TRUE)

\* \w
IsWordChar(c) == Occurrences(UpperCase \o LowerCase \o Digits \o "_", c) # {}

RECURSIVE ToLowerCase(_)
ToLowerCase(str) ==
  IF str = "" THEN ""
  ELSE LowerChar(CharAt(str, 1)) \o ToLowerCase(SubSeq(str, 2, Len(str)))

\* .replace(/[^\wÀ-ɏ]+/g, "-"): every run of other characters
\* becomes one hyphen (the texts of the model hold no character of that range)
RECURSIVE DashRuns(_, _)
DashRuns(str, inRun) ==
  IF str = "" THEN ""
  ELSE LET c == CharAt(str, 1)
           rest == SubSeq(str, 2, Len(str))
       IN IF IsWordChar(c) THEN c \o DashRuns(rest, FALSE)
          ELSE IF inRun THEN DashRuns(rest, TRUE)
          ELSE "-" \o DashRuns(rest, TRUE)

\* .replace(/^-+|-+$/g, '')
RECURSIVE TrimDashes(_)
TrimDashes(str) ==
  IF str = "" THEN ""
  ELSE IF CharAt(str, 1) = "-" THEN TrimDashes(SubSeq(str, 2, Len(str)))
  ELSE IF CharAt(str, Len(str)) = "-" THEN TrimDashes(SubSeq(str, 1, Len(str) - 1))
  ELSE str

Slug(str) == TrimDashes(DashRuns(ToLowerCase(str), FALSE))

\* section.render of the full variant, after renderFile returned output
SectionWrapLenient(output) ==
  LET m == SchemaMatch(output)
      parsed == IF m.found /\ m.group # "" THEN JsonParse(m.group)
                ELSE [ok |-> TRUE, v |-> JNull]
      named == parsed.ok /\ parsed.v.t = "obj" /\ "name" \in DOMAIN parsed.v.o
      slug == IF named THEN Slug(parsed.v.o.name.s) ELSE ""
  IN [ok |-> TRUE, err |-> "",
      html |-> "<div id=\"shopify-section-" \o slug \o "\" class=\"shopify-section\">"
                 \o output \o "</div>"]
SectionWrap(output) ==
  LET m == SchemaMatch(output)
      \* schemaRegex && schemaRegex[1] ? JSON.parse(schemaRegex[1]) : null
      parsed == IF m.found /\ m.group # "" THEN JsonParse(m.group)
                ELSE [ok |-> TRUE, v |-> JNull]
  IN IF ~parsed.ok THEN [ok |-> FALSE, err |-> "SyntaxError: JSON.parse", html |-> ""]
     ELSE IF parsed.v.t # "obj"
       THEN [ok |-> FALSE, err |-> "TypeError: Cannot read property 'name' of null", html |-> ""]
     ELSE IF "name" \notin DOMAIN parsed.v.o
       THEN [ok |-> FALSE, err |-> "TypeError: Cannot read property 'toLowerCase' of undefined",
             html |-> ""]
     ELSE LET schema == parsed.v.o
              class == IF HasTruthy(schema, "class") THEN " " \o schema.class.s ELSE ""
          IN [ok |-> TRUE, err |-> "",
              html |-> "<div id=\"shopify-section-" \o Slug(schema.name.s)
                         \o "\" class=\"shopify-section" \o class \o "\">"
                         \o output \o "</div>"]

\* one render's record: the data handed to renderFile, and the outcome
Render(data, ok, html) == [data |-> data, ok |-> ok, html |-> html]

\* section.render, full variant
SectionRenderFull ==
  /\ secPc = "parsed"
  /\ variant = "full"
  /\ Len(renders) < MaxRenders
  /\ LET f == RenderFile(template) IN
       IF ~f.ok
         THEN /\ renders' = Append(renders, Render(sectionData, FALSE, ""))
              /\ secError' = f.err
         ELSE LET w == SectionWrap(f.out) IN
                /\ renders' = Append(renders, Render(sectionData, w.ok, w.html))
                /\ secError' = w.err
  /\ UNCHANGED <<variant, allPaths, fsSidecar, variantFile, sectionToken, template,
                 sectionData, secPc>>
  /\ UNCHANGED <<tagVars, modVars, pureVars>>

\* section.render, reduced variant
SectionRenderReduced ==
  /\ secPc = "parsed"
  /\ variant = "reduced"
  /\ Len(renders) < MaxRenders
  /\ IF template = Undefined
       THEN \* parseAndRender(undefined) rejects in the engine
            /\ renders' = Append(renders, Render(sectionData, FALSE, ""))
            /\ secError' = "engine: parse failed"
       ELSE IF template = ""
         THEN /\ renders' = Append(renders, Render(sectionData, FALSE, ""))
              /\ secError' = "cannot include with empty filename"
       ELSE LET f == RenderFile(template) IN
              /\ renders' = Append(renders, Render(sectionData, f.ok, f.out))
              /\ secError' = f.err
  /\ UNCHANGED <<variant, allPaths, fsSidecar, variantFile, sectionToken, template,
                 sectionData, secPc>>
  /\ UNCHANGED <<tagVars, modVars, pureVars>>

(***************************************************************************)
(* The module: usePatternLabConfig and renderPattern                       *)
(***************************************************************************)
Configs == {"c1", "c2"}
\* patternLabConfig.paths.source.data of a config
DataDir(config) == IF config = "c1" THEN "data" ELSE "data2"
DataDirs == {DataDir(c) : c \in Configs}
\* path.join(process.cwd(), patternLabConfig.paths.source.data, 'data.json')
DataPath(config) == DataDir(config) \o "/data.json"
DirOfPath(path) == SubSeq(path, 1, Len(path) - Len("/data.json"))
\* rootDirectories.reduce(...): the directories under the patterns directory
RootDirs(config) == IF config = "c1" THEN <<"atoms", "sections">> ELSE <<"sections">>

DataContents == {JStr("v1"), JStr("v2")}

\* fs.readFileSync(path) and JSON.parse of it
ReadJson(path) ==
  IF path = Undefined \/ fsData[DirOfPath(path)] \in {Missing, Corrupt}
    THEN [ok |-> FALSE, v |-> JNull]
    ELSE [ok |-> TRUE, v |-> fsData[DirOfPath(path)]]

\* usePatternLabConfig(config), full variant
UsePatternLabConfigFull(config) ==
  /\ variant = "full"
  /\ setups < MaxSetups
  /\ setups' = setups + 1
  /\ patternLabConfig' = config
  /\ globalDataFilePath' = DataPath(config)
  /\ LET file == ReadJson(DataPath(config)) IN
       IF file.ok
         THEN /\ globalData' = file.v
              /\ allPaths' = RootDirs(config)
              /\ engine' = setups + 1
         ELSE \* readFileSync or JSON.parse throws out of the setup call
              UNCHANGED <<globalData, allPaths, engine>>
  /\ UNCHANGED <<exportsEngine, fsData, calls, logged, variant>>
  /\ UNCHANGED <<tagVars, secRest, pureVars>>

\* usePatternLabConfig(config), reduced variant: globalData is a local const
UsePatternLabConfigReduced(config) ==
  /\ variant = "reduced"
  /\ setups < MaxSetups
  /\ setups' = setups + 1
  /\ patternLabConfig' = config
  /\ IF ReadJson(DataPath(config)).ok
       THEN /\ allPaths' = RootDirs(config)
            /\ engine' = setups + 1
       ELSE UNCHANGED <<allPaths, engine>>
  /\ UNCHANGED <<globalDataFilePath, globalData, exportsEngine, fsData, calls, logged, variant>>
  /\ UNCHANGED <<tagVars, secRest, pureVars>>

\* The data file is rewritten, emptied or removed by its owner (not by the engine).
EditDataFile ==
  /\ \E d \in DataDirs : \E c \in DataContents \cup {Missing, Corrupt} :
       /\ fsData[d] # c
       /\ fsData' = [fsData EXCEPT ![d] = c]
  /\ UNCHANGED <<patternLabConfig, globalDataFilePath, globalData, engine, exportsEngine,
                 setups, calls, logged>>
  /\ UNCHANGED <<tagVars, secVars, pureVars>>

\* one renderPattern call: how far it is, the engine it renders with, the
\* globals it handed over, what the caller got
Call(pc, eng, globals, result) ==
  [pc |-> pc, eng |-> eng, globals |-> globals, result |-> result]

\* the value renderPattern assigns to globalData: the data file as read now
ReloadKeepsOld(old, read) == old
Reload(old, read) == read

\* renderPattern, full variant, up to the return of the promise
RenderPatternFull ==
  /\ variant = "full"
  /\ engine # 0
  /\ Len(calls) < MaxCalls
  /\ LET file == ReadJson(globalDataFilePath) IN
       IF file.ok
         THEN /\ globalData' = Reload(globalData, file.v)
              /\ calls' = Append(calls, Call("pending", engine, globalData', Undefined))
         ELSE \* thrown before the promise chain exists: nothing catches it
              /\ calls' = Append(calls, Call("threw", engine, JNull, Undefined))
              /\ UNCHANGED globalData
  /\ UNCHANGED <<patternLabConfig, globalDataFilePath, engine, exportsEngine, fsData,
                 setups, logged>>
  /\ UNCHANGED <<tagVars, secVars, pureVars>>

\* renderPattern, reduced variant
RenderPatternReduced ==
  /\ variant = "reduced"
  /\ engine # 0
  /\ Len(calls) < MaxCalls
  /\ calls' = Append(calls, Call("pending", engine, JNull, Undefined))
  /\ UNCHANGED <<patternLabConfig, globalDataFilePath, globalData, engine, exportsEngine,
                 fsData, setups, logged>>
  /\ UNCHANGED <<tagVars, secVars, pureVars>>

\* engine.parseAndRender(...) fulfils: .then(html => html)
RenderFulfilled ==
  /\ \E i \in 1..Len(calls) :
       /\ calls[i].pc = "pending"
       /\ calls' = [calls EXCEPT ![i] = [@ EXCEPT !.pc = "fulfilled", !.result = "html"]]
  /\ UNCHANGED <<patternLabConfig, globalDataFilePath, globalData, engine, exportsEngine,
                 fsData, setups, logged>>
  /\ UNCHANGED <<tagVars, secVars, pureVars>>

\* engine.parseAndRender(...) rejects (a tag's parse or render threw):
\* .catch(ex => { console.log(40, ex) }) fulfils with undefined
RenderRejected ==
  /\ \E i \in 1..Len(calls) :
       /\ calls[i].pc = "pending"
       /\ calls' = [calls EXCEPT ![i] = [@ EXCEPT !.pc = "caught", !.result = Undefined]]
  /\ logged' = logged + 1
  /\ UNCHANGED <<patternLabConfig, globalDataFilePath, globalData, engine, exportsEngine,
                 fsData, setups>>
  /\ UNCHANGED <<tagVars, secVars, pureVars>>

(***************************************************************************)
(* findPartial                                                             *)
(***************************************************************************)
\* str.replace(pat, ''): the first occurrence of pat is removed
RemoveFirst(str, pat) ==
  LET at == Occurrences(str, pat) IN
    IF at = {} THEN str
    ELSE LET i == CHOOSE x \in at : \A y \in at : x <= y IN
           SubSeq(str, 1, i - 1) \o SubSeq(str, i + Len(pat), Len(str))

\* str.indexOf(c), counted from 0; -1 when c does not occur
IndexOf(str, c) ==
  LET at == Occurrences(str, c) IN
    IF at = {} THEN -1 ELSE (CHOOSE x \in at : \A y \in at : x <= y) - 1

\* str.split(c)[0]
BeforeFirst(str, c) ==
  IF IndexOf(str, c) = -1 THEN str ELSE SubSeq(str, 1, IndexOf(str, c))

\* the template cruft stripped
StripMarkers(partial) ==
  RemoveFirst(RemoveFirst(RemoveFirst(RemoveFirst(partial, "{{> "), " }}"), "{{>"), "}}")

FindPartialKeepsParameters(partial) == BeforeFirst(StripMarkers(partial), ":")
FindPartial(partial) ==
  LET stripped == StripMarkers(partial)
      \* if (foundPatternPartial.indexOf('(') > 0) substring(0, indexOf('('))
      noParams == IF IndexOf(stripped, "(") > 0
                    THEN SubSeq(stripped, 1, IndexOf(stripped, "("))
                    ELSE stripped
  IN BeforeFirst(noParams, ":")

\* findPartial(partialString)
FindPartialCall ==
  /\ foundPatternPartial = NoResult
  /\ foundPatternPartial' = Text(FindPartial(partialString))
  /\ UNCHANGED <<partialParts, partialString, moneyValue, moneyResult>>
  /\ UNCHANGED <<tagVars, secVars, modVars>>

(***************************************************************************)
(* The money filter                                                        *)
(***************************************************************************)
JNum(n) == [t |-> "num", n |-> n]

\* the value of a run of decimal digits
RECURSIVE DigitsValue(_)
DigitsValue(str) ==
  IF str = "" THEN 0
  ELSE 10 * DigitsValue(SubSeq(str, 1, Len(str) - 1))
         + ((CHOOSE i \in Occurrences(Digits, CharAt(str, Len(str))) : TRUE) - 1)

\* parseFloat(value) for a number or a text of decimal digits
ParseFloat(v) == IF v.t = "num" THEN v.n ELSE DigitsValue(v.s)

\* String(n) for a natural number n
RECURSIVE NatToString(_)
NatToString(n) ==
  IF n < 10 THEN CharAt(Digits, n + 1)
  ELSE NatToString(n \div 10) \o CharAt(Digits, (n % 10) + 1)

\* String(n / 100) for a natural number n: at most two decimals, no trailing zero
HundredthsToString(n) ==
  LET whole == NatToString(n \div 100)
      frac == n % 100
  IN IF frac = 0 THEN whole
     ELSE IF frac % 10 = 0 THEN whole \o "." \o NatToString(frac \div 10)
     ELSE whole \o "." \o CharAt(Digits, (frac \div 10) + 1) \o CharAt(Digits, (frac % 10) + 1)

\* JavaScript truthiness of a value handed to a filter
TruthyValue(v) ==
  CASE v.t = "num" -> v.n # 0
    [] v.t = "str" -> v.s # ""
    [] OTHER -> FALSE

\* value => value && `$${parseFloat(value) / 100}`
Money(value) ==
  IF TruthyValue(value) THEN JStr("$" \o HundredthsToString(ParseFloat(value))) ELSE value

MoneyCall ==
  /\ moneyResult = NoResult
  /\ moneyResult' = Money(moneyValue)
  /\ UNCHANGED <<partialParts, partialString, foundPatternPartial, moneyValue>>
  /\ UNCHANGED <<tagVars, secVars, modVars>>

(***************************************************************************)
(* Initial states and specifications                                       *)
(***************************************************************************)
TagOccurrence ==
  /\ tagToken \in OpeningTokens
  /\ source \in SeqsUpTo(Alphabet(tagToken.name), MaxTokens)
  /\ remainTokens = source
  /\ tokens = <<>>
  /\ stopRequested = FALSE
  /\ tagPc = "ready"
  /\ tagError = ""
  /\ processor = ""
  /\ tagHtml = NoResult
  /\ formClass = JUndefined
  /\ dataAttributes = JUndefined

NoTag ==
  /\ tagToken = TagTok("javascript", "")
  /\ source = <<>>
  /\ remainTokens = <<>>
  /\ tokens = <<>>
  /\ stopRequested = FALSE
  /\ tagPc = "idle"
  /\ tagError = ""
  /\ processor = ""
  /\ tagHtml = NoResult
  /\ formClass = JUndefined
  /\ dataAttributes = JUndefined

\* Sidecar files: the section field absent, null, or an object with optional
\* id, name and blocks; blocks null or a sequence of objects
BlockObjs ==
  UNION {{[k \in D |-> IF k = "id" THEN JStr("old") ELSE JStr("text")]}
           : D \in SUBSET {"id", "type"}}
BlocksValues == {JNull} \cup {JArr(b) : b \in SeqsUpTo(BlockObjs, MaxBlocks)}
SectionObjs ==
  UNION {{[k \in D |-> IF k = "blocks" THEN b
                       ELSE IF k = "id" THEN JStr("old") ELSE JStr("Hero")]
            : b \in BlocksValues}
           : D \in SUBSET {"id", "name", "blocks"}}
SectionValues == {JNull} \cup {JObj(sec) : sec \in SectionObjs}
Sidecars ==
  {JNull} \cup
  UNION {{JObj([k \in D |-> IF k = "section" THEN sec ELSE JStr("dark")])
            : sec \in SectionValues}
           : D \in SUBSET {"section", "settings"}}

SectionArgs == {"'hero'", "hero", "''"}

NoSection ==
  /\ allPaths = <<>>
  /\ fsSidecar = <<>>
  /\ variantFile = Missing
  /\ sectionToken = TagTok("section", "")
  /\ template = Undefined
  /\ sectionData = JObj(<<>>)
  /\ secPc = "idle"
  /\ secError = ""
  /\ renders = <<>>

\* one section tag occurrence, after setup computed allPaths
SectionOccurrence(files, seconds, outputs) ==
  /\ variant \in {"full", "reduced"}
  /\ allPaths = <<"atoms", "sections">>
  /\ \E f \in files :
       \E g \in seconds :
         fsSidecar = [d \in {"atoms", "sections"} |-> IF d = "atoms" THEN f ELSE g]
  /\ variantFile \in outputs
  /\ sectionToken \in {TagTok("section", a) : a \in SectionArgs}
  /\ template = Undefined
  /\ sectionData = JObj(<<>>)
  /\ secPc = "ready"
  /\ secError = ""
  /\ renders = <<>>

\* the module as loaded, before the setup call
ModuleLoaded ==
  /\ patternLabConfig = "{}"
  /\ globalDataFilePath = Undefined
  /\ globalData = JNull
  /\ engine = 0
  /\ exportsEngine = 0
  /\ setups = 0
  /\ calls = <<>>
  /\ logged = 0

NoModule ==
  /\ ModuleLoaded
  /\ fsData = [d \in DataDirs |-> Missing]

NoPartial ==
  /\ partialParts = <<>>
  /\ partialString = ""
  /\ foundPatternPartial = NoResult

NoFilter ==
  /\ moneyValue = JNull
  /\ moneyResult = NoResult

NoPure == NoPartial /\ NoFilter

\* Well-formed partial references: {{> name }}, with an optional :style-modifier
\* and an optional (parameter list), with or without the spaces inside the markers
PartialNames == {"atoms-button", "01-atoms/03-images/landscape-16x9", "a"}
StyleModifiers == {"", ":error", ":size-1|round"}
ParameterLists ==
  {"", "(text: \"Go\")", "(a: \"(x):y\", b: true)", "(t: \"{{> x }}\")", "( label: 'a }} b' )"}
PartialRefs ==
  [lead : {"", " "}, name : PartialNames, mod : StyleModifiers,
   params : ParameterLists, trail : {"", " "}]
PartialText(r) == "{{>" \o r.lead \o r.name \o r.mod \o r.params \o r.trail \o "}}"

InitPartial ==
  /\ NoTag /\ NoSection /\ variant = "full" /\ NoModule /\ NoFilter
  /\ partialParts \in PartialRefs
  /\ partialString = PartialText(partialParts)
  /\ foundPatternPartial = NoResult

NextPartial ==
  \/ FindPartialCall

SpecPartial == InitPartial /\ [][NextPartial]_vars

\* Values handed to the money filter: null, undefined, amounts in cents as
\* numbers and as texts of digits
MoneyValues ==
  {JNull, JUndefined} \cup {JNum(n) : n \in 0..MaxCents}
    \cup {JStr(NatToString(n)) : n \in {0, 5, 50, 500, 1250}}

InitFilter ==
  /\ NoTag /\ NoSection /\ variant = "full" /\ NoModule /\ NoPartial
  /\ moneyValue \in MoneyValues
  /\ moneyResult = NoResult

NextFilter ==
  \/ MoneyCall

SpecFilter == InitFilter /\ [][NextFilter]_vars

InitTag == TagOccurrence /\ NoSection /\ variant = "full" /\ NoModule /\ NoPure

InitModule ==
  /\ NoTag
  /\ NoSection
  /\ NoPure
  /\ variant \in {"full", "reduced"}
  /\ ModuleLoaded
  /\ fsData \in [DataDirs -> DataContents \cup {Missing, Corrupt}]

NextModule ==
  \/ \E config \in Configs : UsePatternLabConfigFull(config)
  \/ \E config \in Configs : UsePatternLabConfigReduced(config)
  \/ EditDataFile
  \/ RenderPatternFull
  \/ RenderPatternReduced
  \/ RenderFulfilled
  \/ RenderRejected

SpecModule == InitModule /\ [][NextModule]_vars

NextTag ==
  \/ ParseBegin
  \/ StreamToken
  \/ StreamStopped
  \/ StreamEnd
  \/ RenderJavascript
  \/ RenderSchema
  \/ RenderPaginate
  \/ RenderStylesheet
  \/ RenderForm

SpecTags == InitTag /\ [][NextTag]_vars

InitSection ==
  /\ NoTag
  /\ NoModule
  /\ NoPure
  /\ SectionOccurrence({Missing, Corrupt} \cup Sidecars,
                       {Missing, JObj([settings |-> JStr("light")])},
                       {Missing, Text("<p>x</p>")})

NextSection ==
  \/ SectionParse
  \/ SectionRenderFull
  \/ SectionRenderReduced

\* What rendering a variant file may yield: up to MaxPieces pieces, each some
\* markup, a bare opening or closing of a schema block, or a whole schema block
SchemaBlock(json) == SchemaOpen \o json \o SchemaClose
Pieces ==
  {"<p>x</p>", SchemaOpen, SchemaClose, SchemaBlock(JsonNamed),
   SchemaBlock(JsonNamedClass), SchemaBlock(JsonNoName), SchemaBlock(JsonNull)}
RECURSIVE Concat(_)
Concat(strs) == IF strs = <<>> THEN "" ELSE Head(strs) \o Concat(Tail(strs))
Outputs == {Text(Concat(ps)) : ps \in SeqsUpTo(Pieces, MaxPieces)}

InitSchema ==
  /\ NoTag
  /\ NoModule
  /\ NoPure
  /\ SectionOccurrence({JObj([section |-> JObj([name |-> JStr("Hero")])])},
                       {Missing}, {Missing} \cup Outputs)

SpecSchema == InitSchema /\ [][NextSection]_vars

SpecSection == InitSection /\ [][NextSection]_vars

(***************************************************************************)
(* Claims on block scanning                                                *)
(***************************************************************************)
HasEnd(tag, s) == \E i \in 1..Len(s) : s[i].name = EndName(tag)
FirstEnd(tag, s) ==
  CHOOSE i \in 1..Len(s) :
    /\ s[i].name = EndName(tag)
    /\ \A j \in 1..(i - 1) : s[j].name # EndName(tag)

\* C1: the buffered sequence is exactly the tokens before the first token
\* named as the end tag, in stream order; that end token is consumed once and
\* never buffered; every token after it is left in the stream.
C1_BufferIsPrefixBeforeFirstEnd ==
  LET tag == tagToken.name IN
    /\ \A k \in 1..Len(tokens) : tokens[k].name # EndName(tag)
    /\ (tagPc = "scanning" /\ ~stopRequested) => tokens \o remainTokens = source
    /\ (tagPc \in {"parsed", "rendered", "renderFailed"}
          \/ (tagPc = "scanning" /\ stopRequested)) =>
         /\ HasEnd(tag, source)
         /\ tokens = SubSeq(source, 1, FirstEnd(tag, source) - 1)
         /\ remainTokens = SubSeq(source, FirstEnd(tag, source) + 1, Len(source))

C1_Witness ==
  /\ tagPc = "parsed"
  /\ Len(tokens) >= 1
  /\ HasEnd(tagToken.name, remainTokens)

\* C2: the stream running out with no token named as the end tag fails the
\* parse with 'tag <opening tag text> not closed' and the tag is never
\* rendered; with an end token in the stream that error is never raised.
C2_NotClosedIffNoEnd ==
  LET tag == tagToken.name
      msg == "tag " \o tagToken.text \o " not closed"
  IN
    /\ tagPc = "failed" =>
         /\ ~HasEnd(tag, source)
         /\ remainTokens = <<>>
         /\ tagError = msg
         /\ tagHtml = NoResult
    /\ tagPc \in {"parsed", "rendered", "renderFailed"} => HasEnd(tag, source)
    /\ HasEnd(tag, source) => tagError # msg

C2_Witness ==
  /\ tagPc = "failed"
  /\ Len(tokens) >= 2
  /\ \E k \in 1..Len(tokens) : tokens[k].name = EndName(OtherBlock(tagToken.name))

\* C7 (as claimed): a resolved processor key other than '', 'sass', 'scss'
\* fails the stylesheet render with an error naming the key and without
\* <style> output; the three recognized keys never raise that error.
C7_UnknownProcessorFails ==
  (tagToken.name = "stylesheet" /\ tagPc \in {"rendered", "renderFailed"}) =>
    LET key == ResolvedKey(processor) IN
      /\ key \notin {"", "sass", "scss"} =>
           /\ tagPc = "renderFailed"
           /\ tagError = "processor for " \o key \o " not found"
           /\ tagHtml = NoResult
      /\ key \in {"", "sass", "scss"} =>
           tagError # "processor for " \o key \o " not found"

(***************************************************************************)
(* Claims on the section tag                                               *)
(***************************************************************************)
HasSectionObj(data) ==
  data.t = "obj" /\ "section" \in DOMAIN data.o /\ data.o.section.t = "obj"

\* the sidecar file section.parse loaded, Missing when it found none
Loaded ==
  IF \E i \in 1..Len(allPaths) : SidecarAt(allPaths[i], template) # Missing
    THEN SidecarAt(allPaths[FirstFound(template)], template)
    ELSE Missing

\* C3 (as claimed): two successive renders of one section tag occurrence
\* (parsed once) expose different section.id and, at every index, different
\* blocks[i].id, and agree on every other field.
C3_FreshIdsPerRender ==
  (Len(renders) >= 2 /\ HasSectionObj(renders[1].data) /\ HasSectionObj(renders[2].data)) =>
    LET s1 == renders[1].data.o.section.o
        s2 == renders[2].data.o.section.o
    IN /\ s1.id # s2.id
       /\ Len(s1.blocks.items) = Len(s2.blocks.items)
       /\ \A i \in 1..Len(s1.blocks.items) :
            /\ s1.blocks.items[i].id # s2.blocks.items[i].id
            /\ \A k \in DOMAIN s1.blocks.items[i] \ {"id"} :
                 s1.blocks.items[i][k] = s2.blocks.items[i][k]
       /\ \A k \in DOMAIN s1 \ {"id", "blocks"} : s1[k] = s2[k]

\* new is old with an id injected or overwritten
SameButId(new, old) ==
  /\ DOMAIN new = (DOMAIN old) \cup {"id"}
  /\ new.id.t = "str" /\ new.id.s \in RandomIds
  /\ \A k \in DOMAIN old \ {"id"} : new[k] = old[k]

\* the record itself and every field of it other than section are as loaded
RecordKept ==
  /\ sectionData.t = Loaded.t
  /\ sectionData.t = "obj" =>
       /\ DOMAIN sectionData.o = DOMAIN Loaded.o
       /\ \A k \in DOMAIN Loaded.o \ {"section"} : sectionData.o[k] = Loaded.o[k]
       /\ ~HasSectionObj(Loaded) => sectionData = Loaded

\* C4 (as claimed): loading a sidecar file changes nothing but the id of the
\* section object and of each entry of its blocks: no other field changes, none
\* is added or removed, the blocks keep order and count.
C4_OnlyIdsChange ==
  (secPc = "parsed" /\ Loaded # Missing) =>
    /\ RecordKept
    /\ HasSectionObj(Loaded) =>
         LET old == Loaded.o.section.o
             new == sectionData.o.section.o
         IN /\ DOMAIN new = (DOMAIN old) \cup {"id"}
            /\ new.id.t = "str" /\ new.id.s \in RandomIds
            /\ \A k \in DOMAIN old \ {"id", "blocks"} : new[k] = old[k]
            /\ "blocks" \in DOMAIN old =>
                 /\ new.blocks.t = old.blocks.t
                 /\ old.blocks.t = "arr" =>
                      /\ Len(new.blocks.items) = Len(old.blocks.items)
                      /\ \A i \in 1..Len(old.blocks.items) :
                           SameButId(new.blocks.items[i], old.blocks.items[i])

\* C4 (amended): besides the ids, a section that has no blocks sequence
\* (the field absent or null) gets blocks set to the empty sequence; nothing
\* else changes, and existing blocks keep order and count.
C4_OnlyIdsAndDefaultBlocksChange ==
  (secPc = "parsed" /\ Loaded # Missing) =>
    /\ RecordKept
    /\ HasSectionObj(Loaded) =>
         LET old == Loaded.o.section.o
             new == sectionData.o.section.o
         IN /\ DOMAIN new = (DOMAIN old) \cup {"id", "blocks"}
            /\ new.id.t = "str" /\ new.id.s \in RandomIds
            /\ \A k \in DOMAIN old \ {"id", "blocks"} : new[k] = old[k]
            /\ new.blocks.t = "arr"
            /\ IF "blocks" \in DOMAIN old /\ old.blocks.t = "arr"
                 THEN /\ Len(new.blocks.items) = Len(old.blocks.items)
                      /\ \A i \in 1..Len(old.blocks.items) :
                           SameButId(new.blocks.items[i], old.blocks.items[i])
                 ELSE new.blocks.items = <<>>

C4_Witness ==
  /\ secPc = "parsed"
  /\ HasSectionObj(Loaded)
  /\ LET old == Loaded.o.section.o IN
       /\ DOMAIN old = {"id", "name", "blocks"}
       /\ old.blocks.t = "arr"
       /\ Len(old.blocks.items) = 2
       /\ DOMAIN old.blocks.items[1] = {"id", "type"}
       /\ DOMAIN old.blocks.items[2] = {"type"}
  /\ sectionData.o.section.o.blocks.items[1].id # sectionData.o.section.o.blocks.items[2].id

HasSchemaBlock(str) ==
  \E i \in Occurrences(str, SchemaOpen) :
    \E j \in Occurrences(str, SchemaClose) : j >= i + Len(SchemaOpen)

\* a schema block whose content is JSON text of an object
HasParsedSchemaBlock(str) ==
  \E i \in Occurrences(str, SchemaOpen) :
    \E j \in Occurrences(str, SchemaClose) :
      /\ j >= i + Len(SchemaOpen)
      /\ SubSeq(str, i + Len(SchemaOpen), j - 1) \in {JsonNamed, JsonNamedClass, JsonNoName}

WrapperOpen == "<div id=\"shopify-section-"

\* C6: in the full variant, a rendered variant output without a schema block
\* fails the section render and yields no wrapper markup; the wrapper is
\* emitted only when a schema block was found and parsed.
C6_NoSchemaNoWrapper ==
  variant = "full" =>
    \A n \in 1..Len(renders) :
      LET r == renders[n] IN
        /\ (variantFile # Missing /\ ~HasSchemaBlock(variantFile.s)) =>
             ~r.ok /\ r.html = ""
        /\ r.ok =>
             /\ variantFile # Missing
             /\ HasParsedSchemaBlock(variantFile.s)
             /\ SubSeq(r.html, 1, Len(WrapperOpen)) = WrapperOpen
        /\ ~r.ok => r.html = ""

C6_Witness ==
  /\ variant = "full"
  /\ Len(renders) >= 1
  /\ variantFile # Missing
  /\ Occurrences(variantFile.s, SchemaOpen) # {}
  /\ ~HasSchemaBlock(variantFile.s)
  /\ ~renders[1].ok

(***************************************************************************)
(* Claims on the module                                                    *)
(***************************************************************************)
\* C5 (as claimed): no renderPattern call throws or hands back a rejected
\* promise; a call that failed gave its caller undefined and logged the failure.
C5_RenderPatternNeverThrows ==
  /\ \A i \in 1..Len(calls) :
       /\ calls[i].pc \in {"pending", "fulfilled", "caught"}
       /\ calls[i].pc = "caught" => calls[i].result = Undefined
  /\ logged = Cardinality({i \in 1..Len(calls) : calls[i].pc = "caught"})

\* a step of a render invocation: a renderPattern call begins or settles
RenderStep == calls' # calls

C9_FindPartialIsBareName ==
  foundPatternPartial # NoResult =>
    /\ foundPatternPartial.s = partialParts.name
    /\ \A mark \in {"{{>", "}}", "(", ":", " "} :
         Occurrences(foundPatternPartial.s, mark) = {}

C9_Witness ==
  /\ foundPatternPartial # NoResult
  /\ partialParts.lead = ""
  /\ partialParts.mod # ""
  /\ Occurrences(partialParts.params, "}}") # {}
  /\ foundPatternPartial.s = "01-atoms/03-images/landscape-16x9"

\* numeric-like: a number, or a text of digits
NumericLike(v) == v.t = "num" \/ (v.t = "str" /\ v.s # "")

\* C10 (as claimed): for every numeric-like value, 0 included, money returns
\* '$' followed by the value divided by 100; for null and undefined it returns
\* a falsy value.
C10_MoneyFormatsEveryNumber ==
  moneyResult # NoResult =>
    /\ NumericLike(moneyValue) =>
         moneyResult = JStr("$" \o HundredthsToString(ParseFloat(moneyValue)))
    /\ moneyValue \in {JNull, JUndefined} => ~TruthyValue(moneyResult)

\* C11: a form tag with a terminated block and no data-* assignment, its
\* argument string empty or holding only a class, renders (whenever the engine
\* renders its child text) to <form class="C">child</form>, C the class
\* written in the arguments, empty when absent, child the rendered child text.
ClassWritten(args) ==
  CASE args = "class: 'btn'" -> "btn"
    [] args = "class:\"a b\"" -> "a b"
    [] OTHER -> ""
FormWithoutData ==
  /\ tagToken.name = "form"
  /\ tagToken.args \in {"", "class: 'btn'", "class:\"a b\""}
FormRenderReturned ==
  /\ tagPc \in {"rendered", "renderFailed"}
  /\ tagError # "engine: render failed"
C11_FormWithoutDataRenders ==
  (FormWithoutData /\ FormRenderReturned) =>
    /\ tagPc = "rendered"
    /\ tagHtml = "<form class=\"" \o ClassWritten(tagToken.args) \o "\">"
                   \o EngineRendered(JoinText(tokens)) \o "</form>"

\* C12: the engine exposed as module.exports.engine is the engine that
\* renderPattern renders with, whatever usePatternLabConfig calls were made.
C12_ExportedEngineIsRenderEngine ==
  /\ exportsEngine = engine
  /\ \A i \in 1..Len(calls) : calls[i].eng = exportsEngine

Spec == SpecTags

====
